---- MODULE Spec2Model ----
(***************************************************************************)
(* Model of dvag_scraper.py: the sitemap walker (expand_sitemap,           *)
(* collect_profile_urls), the extraction engine (extract_from_schema,      *)
(* extract_microdata, merge_profiles, parse_profile_page), the fetch        *)
(* pipeline (fetch_profile and the pool loop of main) and main as a whole. *)
(*                                                                         *)
(* Text is a sequence of character codes (ASCII), so that lower(),         *)
(* endswith(), `in', strip() and the ordering used by sorted() are         *)
(* computed the way Python computes them.                                  *)
(***************************************************************************)
EXTENDS Integers, Sequences, FiniteSets, TLC

VARIABLES
    \* ---- sitemap walker ----
    seeds,       \* sitemap_urls argument of collect_profile_urls
    web,         \* the remote site: sitemap URL -> response it serves (static once served)
    wpc,         \* position inside collect_profile_urls
    seedIdx,     \* index of the seed the for loop of line 147 is at
    stack,       \* call stack of expand_sitemap frames (top is the last element)
    heap,        \* the set objects created by `seen or set()`, by reference
    urls,        \* the set `urls` of collect_profile_urls
    ordered,     \* the returned list
    fetchCount,  \* number of fetch_response calls per sitemap URL
    warnings,    \* number of LOGGER.warning calls
    \* ---- one candidate extraction ----
    epc,         \* "schema" / "micro": the extraction to run; "done_*" once it ran
    item,        \* the JSON-LD block given to extract_from_schema
    dom,         \* the micro-attributes of the page (what extract_microdata reads)
    extracted,   \* the Profile the extraction returned
    \* ---- parse_profile_page ----
    ppc,         \* position inside parse_profile_page
    page_url,    \* the url argument of parse_profile_page
    profile,     \* the accumulating record
    nblocks,     \* structured-data blocks merged so far
    offered,     \* per field, the first non-empty value a merged candidate offered
    clashes,     \* the tiers where a candidate offered another value for a held field
    \* ---- main and the fetch pipeline (fetch_profile) ----
    mpc,            \* position inside main
    limit,          \* args.limit: <<>> for None, <<n>> for a number
    profiles_urls,  \* the list given to the pool
    delay_range,    \* (min_delay, max_delay)
    max_workers,    \* size of the pool
    task,           \* per submitted URL, by position: "queued", "taken", "slept",
                    \*   "requested", "finished", "collected"
    served,         \* per URL: the response the site gave
    requests,       \* per URL: number of fetch_response calls
    slept,          \* per URL: the sleep_time of every time.sleep call (line 302)
    future,         \* per URL: what future.result() gives
    logged,         \* per URL: the status written by the warning of line 308
    warned,         \* number of LOGGER.warning calls
    profiles,       \* the list `profiles` of main
    exported        \* the calls of export_profiles: the list each was handed

wvars == <<seeds, web, wpc, seedIdx, stack, heap, urls, ordered, fetchCount, warnings>>
evars == <<epc, item, dom, extracted>>
pvars == <<ppc, page_url, profile, nblocks, offered, clashes>>
fvars == <<mpc, limit, profiles_urls, delay_range, max_workers, task, served, requests, slept,
           future, logged, warned, profiles, exported>>
vars == <<wvars, evars, pvars, fvars>>

----------------------------------------------------------------------------
(* Bounds of the model *)

\* total number of <loc> entries the remote site serves over all its sitemaps
MaxLocs == 3
\* length of the seed list
MaxSeeds == 2
\* depth of the expand_sitemap call stack the model follows
MaxDepth == 5
\* entries of a telephone list, and telephone tags of a page
MaxPhones == 3
\* entries of a contactPoint list
MaxContacts == 2
\* structured-data blocks of a page
MaxBlocks == 2
\* profile URLs given to the pool
MaxUrls == 3

----------------------------------------------------------------------------
(* Text *)

\* Python's None where a text may stand: a value no text equals
None == <<-1>>

Range(s) == {s[i] : i \in 1..Len(s)}

\* str.lower() on ASCII text
lower(s) == [i \in 1..Len(s) |-> IF s[i] \in 65..90 THEN s[i] + 32 ELSE s[i]]

\* str.endswith(suffix)
endswith(s, suffix) ==
    /\ Len(s) >= Len(suffix)
    /\ SubSeq(s, Len(s) - Len(suffix) + 1, Len(s)) = suffix

\* `fragment in s' for strings
contains(fragment, s) ==
    \E i \in 1..(Len(s) - Len(fragment) + 1) :
        SubSeq(s, i, i + Len(fragment) - 1) = fragment

\* a < b for Python strings: code point order, a proper prefix is smaller
StrLess(a, b) ==
    \E k \in 1..Len(b) :
        /\ k <= Len(a) + 1
        /\ \A j \in 1..(k - 1) : a[j] = b[j]
        /\ (k = Len(a) + 1 \/ a[k] < b[k])

\* the list a set sorts to, in descending order (the wrong order)
RECURSIVE sorted_descending(_)
sorted_descending(S) ==
    IF S = {} THEN <<>>
    ELSE LET m == CHOOSE x \in S : \A y \in S \ {x} : StrLess(y, x)
         IN  <<m>> \o sorted_descending(S \ {m})

\* sorted(urls) on a set of strings
RECURSIVE sorted(_)
sorted(S) ==
    IF S = {} THEN <<>>
    ELSE LET m == CHOOSE x \in S : \A y \in S \ {x} : StrLess(x, y)
         IN  <<m>> \o sorted(S \ {m})

\* "/vermoegensberater/"
PROFILE_FRAGMENT ==
    <<47, 118, 101, 114, 109, 111, 101, 103, 101, 110, 115, 98, 101, 114, 97, 116, 101, 114, 47>>

DotXml == <<46, 120, 109, 108>>               \* ".xml"
DotXmlGz == <<46, 120, 109, 108, 46, 103, 122>>  \* ".xml.gz"

----------------------------------------------------------------------------
(* The URLs of the model *)

UrlA == <<97>> \o DotXml                              \* "a.xml"
UrlB == <<98, 46, 88, 77, 76>>                       \* "b.XML"
UrlC == PROFILE_FRAGMENT \o <<99>> \o DotXmlGz        \* "/vermoegensberater/c.xml.gz"
UrlP1 == PROFILE_FRAGMENT \o <<98>>                   \* "/vermoegensberater/b"
UrlP2 == <<47, 86>> \o SubSeq(PROFILE_FRAGMENT, 3, 19) \o <<97>>  \* "/Vermoegensberater/a"
UrlX == <<120>>                                       \* "x"

Locs == {UrlA, UrlB, UrlC, UrlP1, UrlP2, UrlX}

\* line 135: the location is a nested sitemap reference
IsSitemapRef(loc) ==
    endswith(lower(loc), DotXml) \/ endswith(lower(loc), DotXmlGz)

\* line 138: the location carries the profile-path marker
IsProfileLink(loc) == contains(PROFILE_FRAGMENT, lower(loc))

SitemapUrls == {u \in Locs : IsSitemapRef(u)}

\* the URLs a seed list is made of
SeedUrls == {UrlA, UrlB}

\* the k-th profile URL of the fetch pipeline: "/vermoegensberater/a", ".../b", ...
PipeUrl(k) == PROFILE_FRAGMENT \o <<96 + k>>

\* the positions of the list given to the pool
Slots == 1..MaxUrls

----------------------------------------------------------------------------
(* Text cleaning and JSON values *)

\* the ASCII characters str.strip() removes: tab to carriage return, the
\* separators FS, GS, RS, US, and the space
Whitespace == {9, 10, 11, 12, 13, 28, 29, 30, 31, 32}

RECURSIVE lstrip(_)
lstrip(s) == IF s # <<>> /\ Head(s) \in Whitespace THEN lstrip(Tail(s)) ELSE s

RECURSIVE rstrip(_)
rstrip(s) ==
    IF s # <<>> /\ s[Len(s)] \in Whitespace THEN rstrip(SubSeq(s, 1, Len(s) - 1)) ELSE s

\* str.strip()
strip(s) == rstrip(lstrip(s))

\* Python truthiness of an optional text: None and "" are falsy
Truthy(v) == v # None /\ v # <<>>

\* JSON values as json.loads returns them
JNull == [kind |-> "null", val |-> <<>>]
JNum == [kind |-> "num", val |-> <<>>]
JStr(text) == [kind |-> "str", val |-> text]
JList(values) == [kind |-> "list", val |-> values]
JDict(entries) == [kind |-> "dict", val |-> entries]

IsDict(value) == value.kind = "dict"

\* lines 158-163
_ensure_list(value) ==
    IF value.kind = "null" THEN <<>>
    ELSE IF value.kind = "list" THEN value.val
    ELSE <<value>>

\* line 169: value.strip() exists on str only, anything else but None raises
clean_raises(value) == value.kind \notin {"null", "str"}

\* lines 166-170: None stays None, a text is stripped, "" becomes None
_clean_text(value) ==
    IF value.kind = "str"
    THEN LET cleaned == strip(value.val)
         IN  IF cleaned = <<>> THEN None ELSE cleaned
    ELSE None

----------------------------------------------------------------------------
(* Profile and the candidate extractions *)

Fields == {"name", "phone", "phone2", "zip_code", "city", "street", "email", "profile_url"}

\* lines 40-51: Profile(), every field None
EmptyProfile == [f \in Fields |-> None]

\* every truthy phone is kept, a repeated one too
phone_is_truthy(phone, telephones) == Truthy(phone)

\* lines 183, 189, 245: `phone and phone not in telephones`
phone_is_new(phone, telephones) ==
    Truthy(phone) /\ phone \notin Range(telephones)

\* the loops of lines 181-184, 186-190 and 243-246 over the cleaned phones
RECURSIVE collect_phones(_, _)
collect_phones(telephones, cleaned) ==
    IF cleaned = <<>> THEN telephones
    ELSE collect_phones(
             IF phone_is_new(Head(cleaned), telephones)
             THEN Append(telephones, Head(cleaned))
             ELSE telephones,
             Tail(cleaned))

\* lines 191-193: the first truthy e-mail of the contact points
RECURSIVE first_truthy(_)
first_truthy(values) ==
    IF values = <<>> THEN None
    ELSE IF Truthy(Head(values)) THEN Head(values)
    ELSE first_truthy(Tail(values))

\* the dict entries of contactPoint, lines 186-187
contact_dicts(block) == SelectSeq(_ensure_list(block.contactPoint), IsDict)

\* extract_from_schema raises: a _clean_text call meets a value that is
\* neither None nor a str
schema_raises(block) ==
    \/ clean_raises(block.name)
    \/ \E p \in Range(_ensure_list(block.telephone)) : clean_raises(p)
    \/ \E c \in Range(contact_dicts(block)) :
         clean_raises(c.val.telephone) \/ clean_raises(c.val.email)
    \/ /\ IsDict(block.address)
       /\ \/ clean_raises(block.address.val.streetAddress)
          \/ clean_raises(block.address.val.postalCode)
          \/ clean_raises(block.address.val.addressLocality)
    \/ /\ \A c \in Range(contact_dicts(block)) : ~Truthy(_clean_text(c.val.email))
       /\ clean_raises(block.email)

\* lines 173-209
extract_from_schema(block) ==
    LET top == _ensure_list(block.telephone)
        contacts == contact_dicts(block)
        topClean == [i \in 1..Len(top) |-> _clean_text(top[i])]
        contactClean == [i \in 1..Len(contacts) |-> _clean_text(contacts[i].val.telephone)]
        telephones == collect_phones(collect_phones(<<>>, topClean), contactClean)
        contactEmail ==
            first_truthy([i \in 1..Len(contacts) |-> _clean_text(contacts[i].val.email)])
        address == block.address
    IN  [name |-> _clean_text(block.name),
         phone |-> IF telephones # <<>> THEN telephones[1] ELSE None,
         phone2 |-> IF Len(telephones) > 1 THEN telephones[2] ELSE None,
         zip_code |-> IF IsDict(address) THEN _clean_text(address.val.postalCode) ELSE None,
         city |-> IF IsDict(address) THEN _clean_text(address.val.addressLocality) ELSE None,
         street |-> IF IsDict(address) THEN _clean_text(address.val.streetAddress) ELSE None,
         email |-> IF Truthy(contactEmail) THEN contactEmail ELSE _clean_text(block.email),
         profile_url |-> None]

\* the text of a tag soup.find returned, cleaned; None when no tag was found
clean_tag(text) == IF text = None THEN None ELSE _clean_text(JStr(text))

\* line 254: href.split(":", 1)[-1], the text after the first colon
RECURSIVE after_first_colon(_)
after_first_colon(href) ==
    IF href = <<>> THEN <<>>
    ELSE IF Head(href) = 58 THEN Tail(href)
    ELSE after_first_colon(Tail(href))

\* lines 233-268; the micro-attributes are the text of the first tag of each
\* itemprop (None: no such tag), the texts of all telephone tags in document
\* order, and the href of the first mailto: anchor
extract_microdata(attrs) ==
    LET cleaned == [i \in 1..Len(attrs.telephone) |-> _clean_text(JStr(attrs.telephone[i]))]
        phones == collect_phones(<<>>, cleaned)
    IN  [name |-> clean_tag(attrs.name),
         phone |-> IF phones # <<>> THEN phones[1] ELSE None,
         phone2 |-> IF Len(phones) > 1 THEN phones[2] ELSE None,
         zip_code |-> clean_tag(attrs.postalCode),
         city |-> clean_tag(attrs.addressLocality),
         street |-> clean_tag(attrs.streetAddress),
         email |-> IF Truthy(attrs.mailto)
                   THEN _clean_text(JStr(after_first_colon(attrs.mailto)))
                   ELSE None,
         profile_url |-> None]

\* every truthy value of the candidate replaces the held one
merge_prefer_extra(base, extra) ==
    [f \in Fields |-> IF Truthy(extra[f]) THEN extra[f] ELSE base[f]]

\* every value of the candidate is stored, None included
merge_overwrite(base, extra) == [f \in Fields |-> extra[f]]

\* lines 271-277: a field of the candidate is taken when it is truthy and the
\* field of the base is not
merge_profiles(base, extra) ==
    [f \in Fields |-> IF Truthy(extra[f]) /\ ~Truthy(base[f]) THEN extra[f] ELSE base[f]]

----------------------------------------------------------------------------
(* The remote site *)

\* a response: the outcome of the request; whether it carries the header
\* Content-Encoding: gzip (requests then hands the body over decoded);
\* whether response.content is gzip data; whether the document it holds is
\* well-formed XML; the <loc> texts of that document
Response(outcome, header_gzip, body_gzip, wellformed, locs) ==
    [outcome |-> outcome, header_gzip |-> header_gzip, body_gzip |-> body_gzip,
     wellformed |-> wellformed, locs |-> locs]

Unfetched == Response("unfetched", FALSE, FALSE, FALSE, <<>>)
HttpErrorResponse == Response("http_error", FALSE, FALSE, FALSE, <<>>)
TransportFailure == Response("transport_error", FALSE, FALSE, FALSE, <<>>)
\* a plain body that is not XML
MalformedSitemap == Response("ok", FALSE, FALSE, FALSE, <<>>)
\* a gzip body whose document is not XML
MalformedGzip == Response("ok", FALSE, TRUE, FALSE, <<>>)
\* an empty sitemap sent with Content-Encoding: gzip
HeaderGzipSitemap == Response("ok", TRUE, FALSE, TRUE, <<>>)
\* a sitemap as plain XML
SitemapResponse(locs) == Response("ok", FALSE, FALSE, TRUE, locs)
\* a sitemap as a gzip file
GzipSitemap(locs) == Response("ok", FALSE, TRUE, TRUE, locs)

DotGz == <<46, 103, 122>>  \* ".gz"

\* line 92: the header says gzip, or the URL ends in ".gz" (as written)
decompress_applies(url, resp) == resp.header_gzip \/ endswith(url, DotGz)

\* line 93: gzip.decompress raises on content that is not gzip data
read_raises(url, resp) == decompress_applies(url, resp) /\ ~resp.body_gzip

\* line 101: the text of line 94 parses: the document is well-formed and, if
\* the content is gzip data, it was decompressed
text_parses(url, resp) ==
    /\ resp.outcome = "ok"
    /\ ~read_raises(url, resp)
    /\ resp.wellformed
    /\ resp.body_gzip => decompress_applies(url, resp)

RECURSIVE SumLocs(_, _)
SumLocs(w, S) ==
    IF S = {} THEN 0
    ELSE LET u == CHOOSE x \in S : TRUE
         IN  Len(w[u].locs) + SumLocs(w, S \ {u})

\* the <loc> entries the site may still serve within MaxLocs
LocsLeft == MaxLocs - SumLocs(web, SitemapUrls)

\* the locations a sitemap served on request is made of (b.XML is a seed and
\* a child of SiteIndex only, x is an entry of SiteIndex only)
ListedLocs == Locs \ {UrlB, UrlX}

\* what the site answers to a request for sitemap u: the answer it gave before,
\* or, on the first request, any answer
Serve(u) ==
    IF web[u] # Unfetched THEN {web[u]}
    ELSE {HttpErrorResponse, TransportFailure}
         \cup (IF endswith(u, DotGz)
               THEN {MalformedGzip, SitemapResponse(<<>>)}
               ELSE {MalformedSitemap, HeaderGzipSitemap})
         \cup {IF endswith(u, DotGz) THEN GzipSitemap(b) ELSE SitemapResponse(b) :
                  b \in UNION {[1..k -> ListedLocs] : k \in 0..LocsLeft}}

\* a sitemap that does not parse raises as a failed fetch does
raises_or_malformed(url, resp) == ~text_parses(url, resp)

\* lines 126-127 raise: fetch_response (raise_for_status, or the transport),
\* or _read_sitemap_content (gzip.decompress)
Raises(url, resp) ==
    \/ resp.outcome \in {"http_error", "transport_error"}
    \/ resp.outcome = "ok" /\ read_raises(url, resp)

\* the exception lines 126-127 raise for the sitemap
raised_by(resp) ==
    IF resp.outcome = "http_error" THEN "HTTPError"
    ELSE IF resp.outcome = "transport_error" THEN "ConnectionError"
    ELSE "BadGzipFile"

\* a site whose index a.xml lists a child that does not parse, a child with
\* two profile links and a reference back to the index, and a foreign link
SiteIndex ==
    [u \in SitemapUrls |->
        IF u = UrlA THEN SitemapResponse(<<UrlB, UrlC, UrlX>>)
        ELSE IF u = UrlB THEN MalformedSitemap
        ELSE GzipSitemap(<<UrlP1, UrlP2, UrlA>>)]

\* a site that does not answer
SiteDown == [u \in SitemapUrls |-> TransportFailure]

\* extract_loc_values on the text of line 127: the stripped <loc> texts, []
\* when the text does not parse
extract_loc_values(url, resp) == IF text_parses(url, resp) THEN resp.locs ELSE <<>>

----------------------------------------------------------------------------
(* expand_sitemap *)

Frame(url, seenRef) ==
    [url |-> url, seen |-> seenRef, pc |-> "enter", locs |-> <<>>, i |-> 1,
     profile_urls |-> <<>>]

Top == stack[Len(stack)]
Below == SubSeq(stack, 1, Len(stack) - 1)

\* a fresh set for every call (the visited set is not carried into the recursion)
seen_always_fresh(ref, h) == [ref |-> Len(h) + 1, heap |-> Append(h, {})]

\* line 120, `seen = seen or set()`: None and the empty set are falsy, and a
\* new set object is made for them; ref 0 is None
seen_or_set(ref, h) ==
    IF ref = 0 \/ h[ref] = {}
    THEN [ref |-> Len(h) + 1, heap |-> Append(h, {})]
    ELSE [ref |-> ref, heap |-> h]

\* the value an expand_sitemap call returns reaches its caller: the parent
\* frame's extend (line 136) or the loop of collect_profile_urls (149-150)
Deliver(result) ==
    IF Len(stack) = 1
    THEN /\ urls' = urls \cup Range(result)
         /\ seedIdx' = seedIdx + 1
         /\ stack' = <<>>
         /\ heap' = <<>>
    ELSE LET parent == stack[Len(stack) - 1]
             resumed == [parent EXCEPT !.profile_urls = parent.profile_urls \o result,
                                       !.i = parent.i + 1]
         IN  /\ stack' = SubSeq(stack, 1, Len(stack) - 2) \o <<resumed>>
             /\ UNCHANGED <<urls, seedIdx, heap>>

\* lines 120-122: the URL is in the visited set, return []
ExpandSeen ==
    /\ wpc = "collect" /\ stack # <<>> /\ Top.pc = "enter"
    /\ LET r == seen_or_set(Top.seen, heap)
       IN  /\ Top.url \in r.heap[r.ref]
           /\ Deliver(<<>>)
    /\ UNCHANGED <<seeds, web, wpc, ordered, fetchCount, warnings>>
    /\ UNCHANGED <<evars, pvars, fvars>>

\* only HTTP errors are caught per seed
collect_catches_http(exc) == exc = "HTTPError"

\* line 151, `except Exception`: every exception the expansion can raise
collect_catches(exc) == exc \in {"HTTPError", "ConnectionError", "BadGzipFile"}

\* lines 123-127 with fetch_response or _read_sitemap_content raising: no
\* frame of expand_sitemap
\* catches, the exception reaches line 151 of collect_profile_urls, which
\* logs it and goes on with the next seed
ExpandFetchRaises ==
    /\ wpc = "collect" /\ stack # <<>> /\ Top.pc = "enter"
    /\ LET r == seen_or_set(Top.seen, heap)
       IN  /\ Top.url \notin r.heap[r.ref]
           /\ \E resp \in Serve(Top.url) :
                /\ Raises(Top.url, resp)
                /\ web' = [web EXCEPT ![Top.url] = resp]
                /\ IF collect_catches(raised_by(resp))
                   THEN /\ warnings' = warnings + 1
                        /\ seedIdx' = seedIdx + 1
                        /\ UNCHANGED wpc
                   ELSE /\ wpc' = "crashed"
                        /\ UNCHANGED <<warnings, seedIdx>>
    /\ fetchCount' = [fetchCount EXCEPT ![Top.url] = @ + 1]
    /\ stack' = <<>>
    /\ heap' = <<>>
    /\ UNCHANGED <<seeds, urls, ordered>>
    /\ UNCHANGED <<evars, pvars, fvars>>

\* lines 123-130: mark visited, fetch, decode, extract the locations
ExpandFetchOk ==
    /\ wpc = "collect" /\ stack # <<>> /\ Top.pc = "enter"
    /\ LET r == seen_or_set(Top.seen, heap)
       IN  /\ Top.url \notin r.heap[r.ref]
           /\ \E resp \in Serve(Top.url) :
                /\ ~Raises(Top.url, resp)
                /\ web' = [web EXCEPT ![Top.url] = resp]
                /\ warnings' = IF text_parses(Top.url, resp)
                               THEN warnings ELSE warnings + 1
                /\ stack' = Below \o <<[Top EXCEPT !.seen = r.ref, !.pc = "loop",
                                                   !.locs = extract_loc_values(Top.url, resp)]>>
           /\ heap' = [r.heap EXCEPT ![r.ref] = @ \cup {Top.url}]
    /\ fetchCount' = [fetchCount EXCEPT ![Top.url] = @ + 1]
    /\ UNCHANGED <<seeds, wpc, seedIdx, urls, ordered>>
    /\ UNCHANGED <<evars, pvars, fvars>>

InLoop ==
    /\ wpc = "collect" /\ stack # <<>> /\ Top.pc = "loop"
    /\ Top.i <= Len(Top.locs)

\* the marker is looked for before the suffix
classify_marker_first(loc) ==
    IF IsProfileLink(loc) THEN "profile"
    ELSE IF IsSitemapRef(loc) THEN "sitemap"
    ELSE "other"

\* lines 134-139: the suffix is looked at first, then the marker
classify(loc) ==
    IF IsSitemapRef(loc) THEN "sitemap"
    ELSE IF IsProfileLink(loc) THEN "profile"
    ELSE "other"

\* lines 135-137: a nested sitemap reference, recurse with the same set
LoopRecurse ==
    /\ InLoop
    /\ classify(Top.locs[Top.i]) = "sitemap"
    /\ Len(stack) < MaxDepth
    /\ stack' = Append(stack, Frame(Top.locs[Top.i], Top.seen))
    /\ UNCHANGED <<seeds, web, wpc, seedIdx, heap, urls, ordered, fetchCount, warnings>>
    /\ UNCHANGED <<evars, pvars, fvars>>

\* lines 138-139: a profile link, append it
LoopAppend ==
    /\ InLoop
    /\ classify(Top.locs[Top.i]) = "profile"
    /\ stack' = Below \o <<[Top EXCEPT !.profile_urls = Append(@, Top.locs[Top.i]),
                                       !.i = @ + 1]>>
    /\ UNCHANGED <<seeds, web, wpc, seedIdx, heap, urls, ordered, fetchCount, warnings>>
    /\ UNCHANGED <<evars, pvars, fvars>>

\* the fall-through of line 138: nothing is kept (an empty location, lines
\* 132-133, has no suffix and no marker and ends the same way)
LoopDiscard ==
    /\ InLoop
    /\ classify(Top.locs[Top.i]) = "other"
    /\ stack' = Below \o <<[Top EXCEPT !.i = @ + 1]>>
    /\ UNCHANGED <<seeds, web, wpc, seedIdx, heap, urls, ordered, fetchCount, warnings>>
    /\ UNCHANGED <<evars, pvars, fvars>>

\* line 140: the loop is over, return profile_urls
ExpandReturn ==
    /\ wpc = "collect" /\ stack # <<>> /\ Top.pc = "loop"
    /\ Top.i > Len(Top.locs)
    /\ Deliver(Top.profile_urls)
    /\ UNCHANGED <<seeds, web, wpc, ordered, fetchCount, warnings>>
    /\ UNCHANGED <<evars, pvars, fvars>>

----------------------------------------------------------------------------
(* collect_profile_urls *)

\* lines 147-149: the next seed, expand_sitemap(sitemap_url) with seen=None
CollectNext ==
    /\ wpc = "collect" /\ stack = <<>>
    /\ seedIdx <= Len(seeds)
    /\ stack' = <<Frame(seeds[seedIdx], 0)>>
    /\ UNCHANGED <<seeds, web, wpc, seedIdx, heap, urls, ordered, fetchCount, warnings>>
    /\ UNCHANGED <<evars, pvars, fvars>>

\* lines 153-155: sort and return
CollectFinish ==
    /\ wpc = "collect" /\ stack = <<>>
    /\ seedIdx > Len(seeds)
    /\ ordered' = sorted(urls)
    /\ wpc' = "done"
    /\ UNCHANGED <<seeds, web, seedIdx, stack, heap, urls, fetchCount, warnings>>
    /\ UNCHANGED <<evars, pvars, fvars>>

----------------------------------------------------------------------------
(* One candidate extraction on its own *)

EmptyBlock ==
    [name |-> JNull, telephone |-> JNull, contactPoint |-> JNull, address |-> JNull,
     email |-> JNull]

EmptyAttrs ==
    [name |-> None, telephone |-> <<>>, mailto |-> None, streetAddress |-> None,
     postalCode |-> None, addressLocality |-> None]

\* " ", "1", "\x1c1 ", "2", "3\n"
PhoneTexts == {<<32>>, <<49>>, <<28, 49, 32>>, <<50>>, <<51, 10>>}

SeqsUpTo(S, n) == UNION {[1..k -> S] : k \in 0..n}

TelephoneValues ==
    {JNull} \cup {JStr(t) : t \in PhoneTexts}
            \cup {JList(l) : l \in SeqsUpTo({JStr(t) : t \in PhoneTexts}, MaxPhones)}

ContactDicts ==
    {JDict([telephone |-> p, email |-> JNull]) : p \in {JNull} \cup {JStr(t) : t \in PhoneTexts}}

\* a contactPoint is absent, one dict, or a list of dicts and other values
ContactValues ==
    {JNull} \cup ContactDicts
            \cup {JList(l) : l \in SeqsUpTo(ContactDicts \cup {JStr(<<120>>)}, MaxContacts)}

PhoneBlocks ==
    {[EmptyBlock EXCEPT !.telephone = t, !.contactPoint = c] :
        t \in TelephoneValues, c \in ContactValues}

PhoneAttrs ==
    {[EmptyAttrs EXCEPT !.telephone = l] : l \in SeqsUpTo(PhoneTexts, MaxPhones)}

\* extract_from_schema(item)
ExtractSchema ==
    /\ epc = "schema"
    /\ extracted' = extract_from_schema(item)
    /\ epc' = "done_schema"
    /\ UNCHANGED <<item, dom>>
    /\ UNCHANGED <<wvars, pvars, fvars>>

\* extract_microdata(soup)
ExtractMicro ==
    /\ epc = "micro"
    /\ extracted' = extract_microdata(dom)
    /\ epc' = "done_micro"
    /\ UNCHANGED <<item, dom>>
    /\ UNCHANGED <<wvars, pvars, fvars>>

----------------------------------------------------------------------------
(* merge_profiles on its own: a record merged with an empty candidate, then *)
(* with a copy of itself                                                    *)

\* per field: None, "" or the text "x"
AnyRecords == [Fields -> {None, <<>>, <<120>>}]

MergeWithEmpty ==
    /\ ppc = "merge"
    /\ profile' = merge_profiles(profile, EmptyProfile)
    /\ ppc' = "merged_empty"
    /\ UNCHANGED <<nblocks, offered, clashes>>
    /\ UNCHANGED page_url
    /\ UNCHANGED <<wvars, evars, fvars>>

MergeWithSelf ==
    /\ ppc = "merged_empty"
    /\ profile' = merge_profiles(profile, profile)
    /\ ppc' = "merged_self"
    /\ UNCHANGED <<nblocks, offered, clashes>>
    /\ UNCHANGED page_url
    /\ UNCHANGED <<wvars, evars, fvars>>

----------------------------------------------------------------------------
(* parse_profile_page *)

TxtA == <<65>>
TxtB == <<32, 66>>
TxtC == <<67>>

\* the blocks _iter_schema_candidates yields
SchemaBlocks ==
    {[name |-> n, telephone |-> t, contactPoint |-> c, address |-> a, email |-> e] :
        n \in {JNull, JStr(TxtA), JStr(TxtB)},
        t \in {JNull, JStr(<<49>>), JList(<<JStr(<<50>>), JStr(<<49>>)>>),
               JList(<<JStr(<<49, 32>>), JStr(<<49>>), JStr(<<51>>)>>)},
        c \in {JNull, JDict([telephone |-> JStr(<<51>>), email |-> JStr(<<101>>)])},
        a \in {JNull,
               JDict([streetAddress |-> JStr(<<115>>), postalCode |-> JStr(<<55>>),
                      addressLocality |-> JNull]),
               JDict([streetAddress |-> JStr(<<116>>), postalCode |-> JStr(<<56>>),
                      addressLocality |-> JStr(<<100>>)])},
        e \in {JNull, JStr(<<102>>), JStr(<<32>>)}}

\* a block whose name is a JSON number
NumberNameBlock == [EmptyBlock EXCEPT !.name = JNum]

\* "mailto:"
Mailto == <<109, 97, 105, 108, 116, 111, 58>>

PageAttrs ==
    {[name |-> n, telephone |-> t, mailto |-> m, streetAddress |-> a[1],
      postalCode |-> a[2], addressLocality |-> a[3]] :
        n \in {None, TxtC, <<32>>},
        t \in {<<>>, <<<<49>>>>, <<<<52>>, <<49>>>>},
        m \in {None, Mailto \o <<103>>},
        a \in {<<None, None, None>>, <<<<117>>, <<57>>, <<99>>>>}}

\* line 284: Profile(profile_url=url)
NewProfile(url) == [EmptyProfile EXCEPT !.profile_url = url]

\* per field, the first non-empty value offered so far
Offer(sofar, extra) ==
    [f \in Fields |-> IF Truthy(sofar[f]) THEN sofar[f] ELSE extra[f]]

\* the candidate offers a non-empty value that differs from the one held
Clashes(held, extra) ==
    \E f \in Fields : Truthy(held[f]) /\ Truthy(extra[f]) /\ extra[f] # held[f]

\* lines 286-287: the next block is extracted and merged
ParseMergeSchema ==
    /\ ppc = "tier1"
    /\ nblocks < MaxBlocks
    /\ \E b \in SchemaBlocks :
         /\ ~schema_raises(b)
         /\ LET extra == extract_from_schema(b)
            IN  /\ profile' = merge_profiles(profile, extra)
                /\ offered' = Offer(offered, extra)
                /\ clashes' = IF Clashes(profile, extra)
                              THEN clashes \cup {"tier1"} ELSE clashes
    /\ nblocks' = nblocks + 1
    /\ UNCHANGED ppc
    /\ UNCHANGED page_url
    /\ UNCHANGED <<wvars, evars, fvars>>

\* line 287 with extract_from_schema raising: parse_profile_page raises
ParseSchemaRaises ==
    /\ ppc = "tier1"
    /\ nblocks < MaxBlocks
    /\ \E b \in SchemaBlocks \cup {NumberNameBlock} : schema_raises(b)
    /\ ppc' = "raised"
    /\ UNCHANGED <<profile, nblocks, offered, clashes>>
    /\ UNCHANGED page_url
    /\ UNCHANGED <<wvars, evars, fvars>>

\* the micro-attributes are read for every page
micro_always(record) == TRUE

\* line 289: `not profile.name or not profile.phone`
needs_micro(record) == ~Truthy(record.name) \/ ~Truthy(record.phone)

\* lines 289-292: name or phone is missing, the micro-attributes of the page
\* (known once the page is read for them) are extracted and merged
ParseMergeMicro ==
    /\ ppc = "tier1"
    /\ needs_micro(profile)
    /\ \E a \in PageAttrs :
         LET extra == extract_microdata(a)
         IN  /\ dom' = a
             /\ profile' = merge_profiles(profile, extra)
             /\ offered' = Offer(offered, extra)
             /\ clashes' = IF Clashes(profile, extra)
                           THEN clashes \cup {"tier2"} ELSE clashes
    /\ ppc' = "done"
    /\ UNCHANGED <<nblocks, page_url, epc, item, extracted>>
    /\ UNCHANGED <<wvars, fvars>>

\* lines 289, 292: name and phone are there, the record is returned as it
\* is; the micro-attributes the page carries stay unread
ParseReturn ==
    /\ ppc = "tier1"
    /\ ~needs_micro(profile)
    /\ dom' \in PageAttrs
    /\ ppc' = "done"
    /\ UNCHANGED <<profile, nblocks, offered, clashes, page_url, epc, item, extracted>>
    /\ UNCHANGED <<wvars, fvars>>

----------------------------------------------------------------------------
(* parse_profile_page as a function of the page *)

\* lines 286-287
RECURSIVE merge_blocks(_, _)
merge_blocks(record, blocks) ==
    IF blocks = <<>> THEN record
    ELSE merge_blocks(merge_profiles(record, extract_from_schema(Head(blocks))),
                      Tail(blocks))

\* parse_profile_page raises when the extraction of a block does
parse_raises(page) == \E i \in 1..Len(page.blocks) : schema_raises(page.blocks[i])

\* lines 280-292
parse_profile_page(page, url) ==
    LET tier1 == merge_blocks(NewProfile(url), page.blocks)
    IN  IF needs_micro(tier1)
        THEN merge_profiles(tier1, extract_microdata(page.attrs))
        ELSE tier1

----------------------------------------------------------------------------
(* The fetch pipeline: fetch_profile in the workers, the loop of main *)

\* the profile pages the site may serve: nothing to extract, a person block,
\* micro-attributes only, a block whose name is a number
Pages == {"empty", "block", "micro", "number"}

PageOf(name) ==
    IF name = "block" THEN
        [blocks |-> <<[EmptyBlock EXCEPT !.name = JStr(TxtA), !.telephone = JStr(<<49>>)]>>,
         attrs |-> EmptyAttrs]
    ELSE IF name = "micro" THEN
        [blocks |-> <<>>,
         attrs |-> [EmptyAttrs EXCEPT !.name = TxtC, !.telephone = <<<<52>>>>]]
    ELSE IF name = "number" THEN
        [blocks |-> <<NumberNameBlock>>, attrs |-> EmptyAttrs]
    ELSE [blocks |-> <<>>, attrs |-> EmptyAttrs]

\* the HTTP status codes of the model
StatusCodes == {200, 404, 503}

NotRequested == [kind |-> "none", status |-> 0, page |-> "empty"]

\* a response with a status, or no response at all (timeout, refused, DNS)
ProfileResponses ==
    {[kind |-> "response", status |-> 200, page |-> pg] : pg \in Pages}
    \cup {[kind |-> "response", status |-> st, page |-> "empty"] : st \in StatusCodes \ {200}}
    \cup {[kind |-> "transport", status |-> 0, page |-> "empty"]}

\* line 84, response.raise_for_status(): HTTPError for 4xx and 5xx
raise_for_status(resp) == resp.status >= 400 /\ resp.status < 600

\* the exception fetch_response raises, "" when it returns
fetch_raises(resp) ==
    IF resp.kind = "transport" THEN "ConnectionError"
    ELSE IF raise_for_status(resp) THEN "HTTPError"
    ELSE ""

\* requests.RequestException and its subclasses
RequestExceptions == {"RequestException", "HTTPError", "ConnectionError", "Timeout"}

\* bool(response) is response.ok: False for the responses raise_for_status rejects
response_truthy(resp) == ~raise_for_status(resp)

\* "?"
QuestionMark == -1

\* line 307: exc.response.status_code if exc.response else "?"
logged_status(resp) == IF response_truthy(resp) THEN resp.status ELSE QuestionMark

\* only the errors of the requests library are caught
main_catches_requests(exc) == exc \in RequestExceptions

\* line 420, `except Exception`: every exception a worker can end with
main_catches(exc) == exc \in RequestExceptions \cup {"AttributeError"}

\* a record counts only when it carries a name, a phone or an e-mail
profile_has_contact(record) ==
    Truthy(record.name) \/ Truthy(record.phone) \/ Truthy(record.email)

\* line 423, `if profile:`: a Profile instance is truthy, None is not
profile_truthy(record) == TRUE

NoFuture == [kind |-> "pending", exc |-> "", profile |-> EmptyProfile]
FutureNone == [kind |-> "none", exc |-> "", profile |-> EmptyProfile]
FutureRaised(exc) == [kind |-> "exception", exc |-> exc, profile |-> EmptyProfile]
FutureProfile(record) == [kind |-> "profile", exc |-> "", profile |-> record]

\* the positions of the submitted URLs
PoolUrls == 1..Len(profiles_urls)

\* the workers that took a task and have not finished it
Busy == Cardinality({u \in PoolUrls : task[u] \in {"taken", "slept", "requested"}})

\* the executor hands out the submitted tasks in submission order
NextQueued(u) ==
    /\ u \in PoolUrls
    /\ task[u] = "queued"
    /\ \A j \in 1..(u - 1) : task[j] # "queued"

\* the delay bounds are taken as they come
delay_never_rejected(range) == FALSE

\* line 395: `args.min_delay > args.max_delay`
delay_rejected(range) == range[1] > range[2]

\* lines 400-401: profiles_urls[: args.limit]; a negative limit counts from
\* the end of the list
apply_limit(list, lim) ==
    IF lim = <<>> THEN list
    ELSE LET stop == IF lim[1] < 0 THEN Len(list) + lim[1] ELSE lim[1]
         IN  SubSeq(list, 1, IF stop < 0 THEN 0
                             ELSE IF stop < Len(list) THEN stop ELSE Len(list))

\* lines 395-396: parser.error prints the message and exits
MainUsageError ==
    /\ mpc = "args"
    /\ delay_rejected(delay_range)
    /\ mpc' = "usage_error"
    /\ UNCHANGED <<limit, profiles_urls, delay_range, max_workers, task, served, requests,
                   slept, future, logged, warned, profiles, exported>>
    /\ UNCHANGED <<wvars, evars, pvars>>

\* lines 398-399: main calls collect_profile_urls(args.sitemaps)
MainDiscover ==
    /\ mpc = "args"
    /\ ~delay_rejected(delay_range)
    /\ mpc' = "discover"
    /\ wpc' = "collect"
    /\ UNCHANGED <<seeds, web, seedIdx, stack, heap, urls, ordered, fetchCount, warnings>>
    /\ UNCHANGED <<limit, profiles_urls, delay_range, max_workers, task, served, requests,
                   slept, future, logged, warned, profiles, exported>>
    /\ UNCHANGED <<evars, pvars>>

\* lines 399-402: collect_profile_urls has returned, the limit is applied
MainLimit ==
    /\ mpc = "discover"
    /\ wpc = "done"
    /\ profiles_urls' = apply_limit(ordered, limit)
    /\ mpc' = "start"
    /\ UNCHANGED <<limit, delay_range, max_workers, task, served, requests, slept, future,
                   logged, warned, profiles, exported>>
    /\ UNCHANGED <<wvars, evars, pvars>>

\* lines 404-406: no profile URL, main returns
MainNoUrls ==
    /\ mpc = "start"
    /\ profiles_urls = <<>>
    /\ mpc' = "no_urls"
    /\ UNCHANGED <<profiles_urls, delay_range, max_workers, task, served, requests, slept,
                   future, logged, warned, profiles, exported>>
    /\ UNCHANGED limit
    /\ UNCHANGED <<wvars, evars, pvars>>

\* lines 408-415: every URL is submitted to the pool
MainSubmit ==
    /\ mpc = "start"
    /\ profiles_urls # <<>>
    /\ mpc' = "pool"
    /\ UNCHANGED <<profiles_urls, delay_range, max_workers, task, served, requests, slept,
                   future, logged, warned, profiles, exported>>
    /\ UNCHANGED limit
    /\ UNCHANGED <<wvars, evars, pvars>>

\* the worker sleeps whatever the range is
pacing_always(range) == TRUE

\* line 299: `if max_delay > 0`
pacing(range) == range[2] > 0

\* lines 414-415, executor.submit: a free worker thread takes the next task
\* from the queue and enters fetch_profile; it can be preempted there while
\* another worker takes the following task and runs ahead
WorkerTake(u) ==
    /\ mpc = "pool"
    /\ NextQueued(u)
    /\ Busy < max_workers
    /\ task' = [task EXCEPT ![u] = "taken"]
    /\ UNCHANGED <<mpc, profiles_urls, delay_range, max_workers, served, requests, slept,
                   future, logged, warned, profiles, exported>>
    /\ UNCHANGED limit
    /\ UNCHANGED <<wvars, evars, pvars>>

\* lines 298-302: the worker sleeps random.uniform(min_delay, max_delay)
\* seconds (whole seconds here)
WorkerSleep(u) ==
    /\ mpc = "pool"
    /\ u \in PoolUrls
    /\ task[u] = "taken"
    /\ pacing(delay_range)
    /\ \E d \in delay_range[1]..delay_range[2] : slept' = [slept EXCEPT ![u] = Append(@, d)]
    /\ task' = [task EXCEPT ![u] = "slept"]
    /\ UNCHANGED <<mpc, profiles_urls, delay_range, max_workers, served, requests, future,
                   logged, warned, profiles, exported>>
    /\ UNCHANGED limit
    /\ UNCHANGED <<wvars, evars, pvars>>

\* the worker is at line 304: it slept, or max_delay is 0 and it has entered
\* fetch_profile
AtRequest(u) ==
    /\ mpc = "pool"
    /\ u \in PoolUrls
    /\ \/ task[u] = "slept"
       \/ task[u] = "taken" /\ ~pacing(delay_range)

\* line 305, fetch_response lines 79-83: the request is sent and the worker
\* blocks in session.get until the server answers; the other workers and
\* the main thread run meanwhile
WorkerRequest(u) ==
    /\ AtRequest(u)
    /\ requests' = [requests EXCEPT ![u] = @ + 1]
    /\ task' = [task EXCEPT ![u] = "requested"]
    /\ UNCHANGED <<mpc, profiles_urls, delay_range, max_workers, served, slept, future,
                   logged, warned, profiles, exported>>
    /\ UNCHANGED limit
    /\ UNCHANGED <<wvars, evars, pvars>>

\* the worker is inside session.get, waiting for the answer
Awaiting(u) ==
    /\ mpc = "pool"
    /\ u \in PoolUrls
    /\ task[u] = "requested"

\* lines 305-309: HTTPError, a warning with the status, None
WorkerHttpError(u) ==
    /\ Awaiting(u)
    /\ \E resp \in ProfileResponses :
         /\ fetch_raises(resp) = "HTTPError"
         /\ served' = [served EXCEPT ![u] = resp]
         /\ logged' = [logged EXCEPT ![u] = logged_status(resp)]
    /\ warned' = warned + 1
    /\ future' = [future EXCEPT ![u] = FutureNone]
    /\ task' = [task EXCEPT ![u] = "finished"]
    /\ UNCHANGED <<mpc, profiles_urls, delay_range, max_workers, slept, profiles, exported>>
    /\ UNCHANGED <<limit, requests>>
    /\ UNCHANGED <<wvars, evars, pvars>>

\* lines 305, 310-312: another RequestException, a warning, None
WorkerNetworkError(u) ==
    /\ Awaiting(u)
    /\ \E resp \in ProfileResponses :
         /\ fetch_raises(resp) \in RequestExceptions \ {"HTTPError"}
         /\ served' = [served EXCEPT ![u] = resp]
    /\ warned' = warned + 1
    /\ future' = [future EXCEPT ![u] = FutureNone]
    /\ task' = [task EXCEPT ![u] = "finished"]
    /\ UNCHANGED <<mpc, profiles_urls, delay_range, max_workers, slept, logged, profiles,
                   exported>>
    /\ UNCHANGED <<limit, requests>>
    /\ UNCHANGED <<wvars, evars, pvars>>

\* lines 305, 314-317: the page is parsed and the record returned
WorkerParsed(u) ==
    /\ Awaiting(u)
    /\ \E resp \in ProfileResponses :
         /\ fetch_raises(resp) = ""
         /\ ~parse_raises(PageOf(resp.page))
         /\ served' = [served EXCEPT ![u] = resp]
         /\ future' = [future EXCEPT
                          ![u] = FutureProfile(parse_profile_page(PageOf(resp.page),
                                                           profiles_urls[u]))]
    /\ task' = [task EXCEPT ![u] = "finished"]
    /\ UNCHANGED <<mpc, profiles_urls, delay_range, max_workers, slept, logged, warned,
                   profiles, exported>>
    /\ UNCHANGED <<limit, requests>>
    /\ UNCHANGED <<wvars, evars, pvars>>

\* lines 305, 314 with parse_profile_page raising: no handler in
\* fetch_profile, the future holds the exception
WorkerParseRaises(u) ==
    /\ Awaiting(u)
    /\ \E resp \in ProfileResponses :
         /\ fetch_raises(resp) = ""
         /\ parse_raises(PageOf(resp.page))
         /\ served' = [served EXCEPT ![u] = resp]
    /\ future' = [future EXCEPT ![u] = FutureRaised("AttributeError")]
    /\ task' = [task EXCEPT ![u] = "finished"]
    /\ UNCHANGED <<mpc, profiles_urls, delay_range, max_workers, slept, logged, warned,
                   profiles, exported>>
    /\ UNCHANGED <<limit, requests>>
    /\ UNCHANGED <<wvars, evars, pvars>>

\* the record is put in front of the list
list_prepend(list, record) == <<record>> \o list

\* line 424: profiles.append(profile)
list_append(list, record) == Append(list, record)

\* lines 416-424: as_completed yields a finished future, main takes its
\* result and, in the main thread, appends the record to `profiles`
MainCollect(u) ==
    /\ mpc = "pool"
    /\ task[u] = "finished"
    /\ task' = [task EXCEPT ![u] = "collected"]
    /\ IF future[u].kind = "exception"
       THEN IF main_catches(future[u].exc)
            THEN /\ warned' = warned + 1
                 /\ UNCHANGED <<mpc, profiles>>
            ELSE /\ mpc' = "crashed"
                 /\ UNCHANGED <<warned, profiles>>
       ELSE /\ profiles' = IF future[u].kind = "profile" /\ profile_truthy(future[u].profile)
                           THEN list_append(profiles, future[u].profile)
                           ELSE profiles
            /\ UNCHANGED <<mpc, warned>>
    /\ UNCHANGED <<profiles_urls, delay_range, max_workers, served, requests, slept, future,
                   logged, exported>>
    /\ UNCHANGED limit
    /\ UNCHANGED <<wvars, evars, pvars>>

\* a record is missing for one of the URLs
any_url_failed(records) == Len(records) < Len(profiles_urls)

\* line 428: `if not profiles`
no_records(records) == records = <<>>

\* lines 428-430: the pool is shut down and no record was collected
MainNoRecords ==
    /\ mpc = "pool"
    /\ \A u \in PoolUrls : task[u] = "collected"
    /\ no_records(profiles)
    /\ mpc' = "no_records"
    /\ UNCHANGED <<profiles_urls, delay_range, max_workers, task, served, requests, slept,
                   future, logged, warned, profiles, exported>>
    /\ UNCHANGED limit
    /\ UNCHANGED <<wvars, evars, pvars>>

\* line 432: the pool is shut down, the records go to export_profiles
MainExport ==
    /\ mpc = "pool"
    /\ \A u \in PoolUrls : task[u] = "collected"
    /\ ~no_records(profiles)
    /\ mpc' = "exported"
    /\ exported' = Append(exported, profiles)
    /\ UNCHANGED <<profiles_urls, delay_range, max_workers, task, served, requests, slept,
                   future, logged, warned, profiles>>
    /\ UNCHANGED limit
    /\ UNCHANGED <<wvars, evars, pvars>>

----------------------------------------------------------------------------
(* The sitemap graph the site has served, read independently of the walk *)

\* the nested sitemap references listed by sitemap u
NestedRefs(u) ==
    IF u \in SitemapUrls /\ text_parses(u, web[u])
    THEN {l \in Range(web[u].locs) : IsSitemapRef(l)}
    ELSE {}

\* the profile links listed by sitemap u
ListedProfiles(u) ==
    IF u \in SitemapUrls /\ text_parses(u, web[u])
    THEN {l \in Range(web[u].locs) : ~IsSitemapRef(l) /\ IsProfileLink(l)}
    ELSE {}

\* the sitemaps reachable from the set S through nested references
RECURSIVE Closure(_)
Closure(S) ==
    LET T == S \cup UNION {NestedRefs(u) : u \in S}
    IN  IF T = S THEN S ELSE Closure(T)

\* sitemap u lies on a cycle of nested references
OnCycle(u) == u \in Closure(NestedRefs(u))

\* no sitemap reachable from seed s answers with an error
SeedSucceeds(s) == \A u \in Closure({s}) : ~Raises(u, web[u])

\* the profile links of every seed whose whole expansion succeeds
ExpectedProfiles ==
    UNION {UNION {ListedProfiles(u) : u \in Closure({seeds[i]})} :
           i \in {j \in 1..Len(seeds) : SeedSucceeds(seeds[j])}}

StrictlyAscending(q) == \A i \in 1..(Len(q) - 1) : StrLess(q[i], q[i + 1])

----------------------------------------------------------------------------
(* Claims on the sitemap walker *)

\* C1: on every sitemap graph, with self-references and cycles of nested
\* sitemaps included, collect_profile_urls terminates.
C1_Termination == <>(wpc = "done")

\* a finished run over a graph where a sitemap lies on a cycle through
\* another sitemap
C1_Witness ==
    /\ wpc = "done"
    /\ \E u \in SitemapUrls :
         /\ fetchCount[u] > 0
         /\ OnCycle(u)
         /\ u \notin NestedRefs(u)

\* C2: during one call of collect_profile_urls over a list of different
\* seeds every sitemap URL is fetched at most once, the visited set being
\* shared by the whole seed list.
C2_FetchedAtMostOnce ==
    (\A i, j \in 1..Len(seeds) : i # j => seeds[i] # seeds[j])
        => \A u \in SitemapUrls : fetchCount[u] <= 1

\* C3: the returned list has no duplicate, is in ascending order, and holds
\* exactly the profile URLs of the seeds, a function of the seed list and of
\* the static sitemap graph alone.
C3_SortedUnion ==
    wpc = "done" =>
        /\ StrictlyAscending(ordered)
        /\ Range(ordered) = ExpectedProfiles

\* a finished run that returned two URLs which a sitemap lists in the other
\* order and with a repetition
C3_Witness ==
    /\ wpc = "done"
    /\ ordered = <<UrlP2, UrlP1>>
    /\ \E u \in SitemapUrls : web[u].locs = <<UrlP1, UrlP2, UrlP1>>

\* C4: when the fetch of a nested sitemap fails, the profile URLs listed by
\* the sitemaps under the same seed are still returned.
C4_NestedFailureContained ==
    wpc = "done" =>
        \A i \in 1..Len(seeds) :
            ~Raises(seeds[i], web[seeds[i]]) =>
                UNION {ListedProfiles(u) : u \in Closure({seeds[i]})} \subseteq Range(ordered)

\* every sitemap reachable from seed s was served without an error status
\* and without a transport failure, and its body was decoded
AllServed(s) ==
    \A u \in Closure({s}) : web[u].outcome = "ok" /\ ~read_raises(u, web[u])

\* the profile links listed under seed s
ProfilesUnder(s) == UNION {ListedProfiles(u) : u \in Closure({s})}

\* the fetches that ended in a warning: a failed one, or a body that is not XML
RECURSIVE WarnedFetches(_)
WarnedFetches(S) ==
    IF S = {} THEN 0
    ELSE LET u == CHOOSE x \in S : TRUE
         IN  (IF text_parses(u, web[u]) THEN 0 ELSE fetchCount[u])
             + WarnedFetches(S \ {u})

\* C14: a sitemap whose text is not well-formed XML gives no location and
\* one warning, and the expansion goes on with the other entries of its
\* parent: the profile links under a seed are all returned when every
\* sitemap under it was fetched and decoded, sitemaps that do not parse
\* notwithstanding.
C14_MalformedIsSoft ==
    /\ warnings = WarnedFetches(SitemapUrls)
    /\ wpc = "done" =>
         \A i \in 1..Len(seeds) :
             AllServed(seeds[i]) => ProfilesUnder(seeds[i]) \subseteq Range(ordered)

\* the index a.xml with the child b.XML that does not parse and the child
\* c.xml.gz listing two profile links: exactly the two links are returned,
\* with a warning
C14_Witness ==
    /\ wpc = "done"
    /\ seeds = <<UrlA>>
    /\ web[UrlA].locs = <<UrlB, UrlC, UrlX>>
    /\ web[UrlB] = MalformedSitemap
    /\ fetchCount[UrlB] = 1
    /\ web[UrlC].locs = <<UrlP1, UrlP2, UrlA>>
    /\ ordered = <<UrlP2, UrlP1>>
    /\ warnings = 1

\* C15: a transport error while one seed is expanded is caught for that seed
\* alone: collect_profile_urls goes on, every seed of the list is expanded,
\* and the profile URLs of the seeds before and after the failed one are in
\* the result.
C15_SeedFailureContained ==
    /\ wpc # "crashed"
    /\ wpc = "done" =>
         \A i, j \in 1..Len(seeds) :
             (/\ \E u \in Closure({seeds[i]}) : web[u].outcome = "transport_error"
              /\ AllServed(seeds[j]))
                => /\ fetchCount[seeds[j]] >= 1
                   /\ ProfilesUnder(seeds[j]) \subseteq Range(ordered)

\* a finished run whose first seed met a transport error and whose second
\* seed gave a profile URL
C15_Witness ==
    /\ wpc = "done"
    /\ Len(seeds) = 2
    /\ web[seeds[1]].outcome = "transport_error"
    /\ AllServed(seeds[2])
    /\ ProfilesUnder(seeds[2]) # {}
    /\ ProfilesUnder(seeds[2]) \subseteq Range(ordered)

\* the location ends in .xml or .xml.gz, whatever its case
HasSitemapSuffix(loc) ==
    LET l == lower(loc)
    IN  \/ (Len(l) >= 4 /\ SubSeq(l, Len(l) - 3, Len(l)) = DotXml)
        \/ (Len(l) >= 7 /\ SubSeq(l, Len(l) - 6, Len(l)) = DotXmlGz)

\* what the loop of expand_sitemap did with the location it was at:
\* "recursed", "recorded" or "discarded"
LoopOutcome ==
    LET loc == Top.locs[Top.i]
    IN  IF Len(stack') = Len(stack) + 1
        THEN IF stack'[Len(stack')].url = loc
                /\ stack'[Len(stack)].profile_urls = Top.profile_urls
             THEN "recursed" ELSE "none"
        ELSE IF Len(stack') = Len(stack)
        THEN IF stack'[Len(stack)].profile_urls = Append(Top.profile_urls, loc)
             THEN "recorded"
             ELSE IF stack'[Len(stack)].profile_urls = Top.profile_urls
             THEN "discarded" ELSE "none"
        ELSE "none"

\* C18, as stated: a location with a sitemap suffix (in any case) is
\* recursed into, any other location that contains the marker
\* "/vermoegensberater/" is recorded, the rest is discarded; every returned
\* URL contains the marker and has no sitemap suffix.
C18_ThreeOutcomes ==
    /\ [][(InLoop /\ stack' # stack) =>
             LoopOutcome = (IF HasSitemapSuffix(Top.locs[Top.i]) THEN "recursed"
                            ELSE IF contains(PROFILE_FRAGMENT, Top.locs[Top.i])
                            THEN "recorded"
                            ELSE "discarded")]_vars
    /\ [](wpc = "done" =>
             \A u \in Range(ordered) :
                 contains(PROFILE_FRAGMENT, u) /\ ~HasSitemapSuffix(u))

\* C18, amended: the marker is looked for in the lower-cased location, as the
\* suffix is; every returned URL contains the marker when lower-cased and
\* has no sitemap suffix.
C18_ThreeOutcomesAnyCase ==
    /\ [][(InLoop /\ stack' # stack) =>
             LoopOutcome = (IF HasSitemapSuffix(Top.locs[Top.i]) THEN "recursed"
                            ELSE IF contains(PROFILE_FRAGMENT, lower(Top.locs[Top.i]))
                            THEN "recorded"
                            ELSE "discarded")]_vars
    /\ [](wpc = "done" =>
             \A u \in Range(ordered) :
                 contains(PROFILE_FRAGMENT, lower(u)) /\ ~HasSitemapSuffix(u))

\* a finished run over sitemaps that list a location with the marker and
\* the suffix .xml.gz, which was fetched as a sitemap and not returned, a
\* foreign link next to it, which was not returned either, and a profile
\* link written with a capital letter, which was returned
C18_Witness ==
    /\ wpc = "done"
    /\ \E s \in SitemapUrls : {UrlC, UrlX} \subseteq Range(web[s].locs)
    /\ \E s \in SitemapUrls : UrlP2 \in Range(web[s].locs)
    /\ fetchCount[UrlC] >= 1
    /\ UrlP2 \in Range(ordered)
    /\ UrlC \notin Range(ordered)
    /\ UrlX \notin Range(ordered)

----------------------------------------------------------------------------
(* Claims on the extraction engine *)

\* the cleaned phone values of a block in discovery order: the top-level
\* telephone values, then the telephones of the contact points
BlockPhones(block) ==
    LET top == _ensure_list(block.telephone)
        contacts == contact_dicts(block)
    IN  [i \in 1..Len(top) |-> _clean_text(top[i])]
        \o [i \in 1..Len(contacts) |-> _clean_text(contacts[i].val.telephone)]

AttrPhones(attrs) ==
    [i \in 1..Len(attrs.telephone) |-> _clean_text(JStr(attrs.telephone[i]))]

\* the first non-empty value, and the first non-empty value distinct from it
FirstPhone(cleaned) ==
    LET d == SelectSeq(cleaned, Truthy)
    IN  IF d = <<>> THEN None ELSE d[1]

SecondPhone(cleaned) ==
    LET d == SelectSeq(cleaned, Truthy)
        J == {j \in 1..Len(d) : d[j] # d[1]}
    IN  IF J = {} THEN None ELSE d[CHOOSE j \in J : \A k \in J : j <= k]

\* C5: in parse_profile_page a field that holds a non-empty value is never
\* changed by a later merge, and every field holds the first non-empty value
\* the merged candidates offered, in the order blocks then micro-attributes.
C5_FirstWriterWins ==
    [][\A f \in Fields :
          /\ Truthy(profile[f]) => profile'[f] = profile[f]
          /\ profile'[f] = offered'[f]]_vars

\* a parsed page where a later block and the micro-attributes each offered a
\* different value for a field that was already set
C5_Witness ==
    /\ ppc = "done"
    /\ clashes = {"tier1", "tier2"}

\* C9: one candidate extraction yields at most two phones, the first and
\* the second distinct non-empty trimmed value in discovery order; repeated
\* values and later ones are dropped.
C9_TwoPhones ==
    /\ epc = "done_schema" =>
         /\ extracted.phone = FirstPhone(BlockPhones(item))
         /\ extracted.phone2 = SecondPhone(BlockPhones(item))
    /\ epc = "done_micro" =>
         /\ extracted.phone = FirstPhone(AttrPhones(dom))
         /\ extracted.phone2 = SecondPhone(AttrPhones(dom))

\* a block extracted whose contact points add a third distinct phone after a
\* repeated one
C9_Witness ==
    /\ epc = "done_schema"
    /\ LET d == SelectSeq(BlockPhones(item), Truthy)
       IN  /\ Cardinality(Range(d)) >= 3
           /\ Len(d) > Cardinality(Range(d))
           /\ d[1] = d[2]
    /\ contact_dicts(item) # <<>>
    /\ Truthy(extracted.phone2)

\* C10: merging a record with an all-empty candidate, or with a copy of
\* itself, leaves every field unchanged.
C10_MergeIdempotent ==
    [][(ppc \in {"merge", "merged_empty"}) => (profile' = profile)]_vars

\* a record with set and unset fields after both merges
C10_Witness ==
    /\ ppc = "merged_self"
    /\ Truthy(profile.name)
    /\ profile.email = None
    /\ profile.city = <<>>

\* C11: the source URL of the record is the url given to parse_profile_page
\* from its creation on, and no merge of a block or of the micro-attributes
\* changes it: the returned record carries that URL.
C11_SourceUrlKept ==
    ppc \in {"tier1", "done"} => profile.profile_url = page_url

\* a returned record that went through the merge of two blocks and of the
\* micro-attributes, with clashing values on both tiers
C11_Witness ==
    /\ ppc = "done"
    /\ nblocks >= 2
    /\ clashes = {"tier1", "tier2"}
    /\ profile.profile_url = page_url
    /\ Truthy(page_url)

\* C16: in the returned record the secondary phone is set only when the
\* primary phone is, and it never equals the primary phone, whatever
\* candidates were merged.
C16_SecondaryDiffers ==
    ppc = "done" =>
        (Truthy(profile.phone2) =>
            (Truthy(profile.phone) /\ profile.phone2 # profile.phone))

\* C17: when the blocks supplied both a name and a primary phone, the
\* micro-attributes are not read: the record is returned as tier 1 left it,
\* and a field tier 1 left empty stays empty also when the micro-attributes
\* of the page carry a value for it.
C17_MicroOnlyWhenNeeded ==
    [][(ppc = "tier1" /\ ppc' = "done"
        /\ Truthy(profile.name) /\ Truthy(profile.phone))
          => (profile' = profile)]_vars

\* a returned record with name and phone from the blocks and no secondary
\* phone, e-mail, street, postal code or city, on a page whose
\* micro-attributes carry each of them
C17_Witness ==
    /\ ppc = "done"
    /\ nblocks >= 1
    /\ Truthy(profile.name) /\ Truthy(profile.phone)
    /\ \A f \in {"phone2", "email", "street", "zip_code", "city"} :
         /\ profile[f] = None
         /\ Truthy(extract_microdata(dom)[f])

----------------------------------------------------------------------------
(* Claims on the fetch pipeline *)

\* the fetch of u succeeded and its page was parsed to the end
ParsedOk(u) ==
    /\ served[u].kind = "response"
    /\ fetch_raises(served[u]) = ""
    /\ ~parse_raises(PageOf(served[u].page))

\* the records of the result collection that come from u
RecordsOf(u) == {i \in 1..Len(profiles) : profiles[i].profile_url = profiles_urls[u]}

PoolShutDown == mpc \in {"no_records", "exported"}

\* C6: after the pool has processed the URLs the result collection holds
\* exactly one record for every URL fetched and parsed, sparse records
\* included, and none for a failed URL; each URL is requested once, without
\* retry, and every failed URL gives one warning.
C6_OneRecordPerSuccess ==
    /\ \A u \in Slots : requests[u] <= 1
    /\ PoolShutDown =>
         /\ \A u \in PoolUrls :
              /\ requests[u] = 1
              /\ Cardinality(RecordsOf(u)) = IF ParsedOk(u) THEN 1 ELSE 0
         /\ Len(profiles) = Cardinality({u \in PoolUrls : ParsedOk(u)})
         /\ warned = Cardinality({u \in PoolUrls : ~ParsedOk(u)})

\* a finished run over three URLs with an HTTP error and a collected record
\* that has no name, phone or e-mail
C6_Witness ==
    /\ mpc = "exported"
    /\ Len(profiles_urls) >= 3
    /\ \E u \in PoolUrls : fetch_raises(served[u]) = "HTTPError"
    /\ \E i \in 1..Len(profiles) : ~profile_has_contact(profiles[i])

\* C7: an HTTP error, a transport error or an exception raised inside the
\* extraction of one URL never ends the pool: main reaches the end of the
\* pool with every URL completed and the record of every other URL collected.
C7_FailuresContained ==
    <>(\/ mpc = "no_urls"
       \/ /\ PoolShutDown
          /\ \A u \in PoolUrls :
               /\ task[u] = "collected"
               /\ ParsedOk(u) => Cardinality(RecordsOf(u)) = 1)

\* a finished run where one URL raised inside the extraction, one answered
\* with an HTTP error, and a record of another URL was collected
C7_Witness ==
    /\ mpc = "exported"
    /\ \E u \in PoolUrls : future[u].kind = "exception"
    /\ \E u \in PoolUrls : fetch_raises(served[u]) = "HTTPError"
    /\ \E u \in PoolUrls : ParsedOk(u) /\ Cardinality(RecordsOf(u)) = 1

\* C8: for a response with an HTTP error status fetch_profile logs a warning
\* with the status code of that response and returns no record.
C8_StatusLogged ==
    \A u \in Slots :
        (served[u].kind = "response" /\ raise_for_status(served[u])) =>
            /\ logged[u] = served[u].status
            /\ future[u] = FutureNone

\* main has returned or exited
RunEnded == mpc \in {"usage_error", "no_urls", "no_records", "exported"}

\* C12: a run that discovers no profile URL, or collects no record, ends
\* without calling the exporter; every other run, runs where some URLs
\* failed included, calls the exporter exactly once, with all the collected
\* records, after every submitted URL has completed.
C12_ExportOnlyWithRecords ==
    /\ Len(exported) <= 1
    /\ exported # <<>> => mpc = "exported"
    /\ mpc = "no_urls" => (profiles_urls = <<>> /\ \A u \in Slots : requests[u] = 0)
    /\ mpc = "no_records" => \A u \in PoolUrls : task[u] = "collected" /\ ~ParsedOk(u)
    /\ mpc = "exported" =>
         /\ exported = <<profiles>>
         /\ \A u \in PoolUrls : task[u] = "collected"
         /\ Len(profiles) = Cardinality({u \in PoolUrls : ParsedOk(u)})
         /\ \A u \in PoolUrls : ParsedOk(u) => Cardinality(RecordsOf(u)) = 1
    /\ (RunEnded /\ mpc # "usage_error") =>
         (exported = <<>> <=> (profiles_urls = <<>> \/ \A u \in PoolUrls : ~ParsedOk(u)))

\* a run over two discovered URLs, one failed and one parsed, that handed
\* the one record to the exporter
C12_Witness ==
    /\ mpc = "exported"
    /\ Len(profiles_urls) = 2
    /\ \E u \in PoolUrls : ~ParsedOk(u)
    /\ Len(exported) = 1
    /\ Len(exported[1]) = 1

\* C13: with a minimum delay above the maximum delay the run stops before
\* any network activity: no sitemap and no profile page is ever requested.
C13_NoFetchAfterUsageError ==
    delay_range[1] > delay_range[2] =>
        /\ \A u \in SitemapUrls : fetchCount[u] = 0
        /\ \A u \in Slots : requests[u] = 0
        /\ mpc \in {"args", "usage_error"}

\* the run has stopped on the delay bounds
C13_Witness ==
    /\ mpc = "usage_error"
    /\ delay_range[1] > delay_range[2]
    /\ wpc = "idle"

\* C19: the pacing sleep of a URL comes before its request and lasts between
\* min and max; with max 0 there is no sleep at all and the request is made
\* at once.
C19_SleepBeforeRequest ==
    \A u \in Slots :
        /\ Len(slept[u]) <= 1
        /\ \A i \in 1..Len(slept[u]) :
             delay_range[1] <= slept[u][i] /\ slept[u][i] <= delay_range[2]
        /\ requests[u] >= 1 => Len(slept[u]) = (IF delay_range[2] = 0 THEN 0 ELSE 1)
        /\ delay_range[2] = 0 => slept[u] = <<>>

\* one URL has been requested after a sleep of the maximum, another URL is
\* asleep and not requested yet
C19_Witness ==
    /\ \E u \in PoolUrls : requests[u] = 1 /\ slept[u] = <<delay_range[2]>>
    /\ \E u \in PoolUrls : requests[u] = 0 /\ slept[u] = <<delay_range[1]>>
    /\ delay_range[1] < delay_range[2]

\* C20: the result collection is changed by the main thread alone, one
\* completed future at a time, by appending the record that future holds;
\* a record a worker returned is not changed by any step before its append.
C20_AppendsSerialized ==
    [][/\ profiles' # profiles =>
            \E u \in PoolUrls :
                /\ task[u] = "finished" /\ task'[u] = "collected"
                /\ \A v \in Slots \ {u} : task'[v] = task[v]
                /\ future[u].kind = "profile"
                /\ profiles' = Append(profiles, future[u].profile)
       /\ \A u \in Slots :
            future[u].kind = "profile" => future'[u] = future[u]
       /\ \A i \in 1..Len(profiles) :
            i <= Len(profiles') /\ profiles'[i] = profiles[i]]_vars

\* two workers ran at the same time and both their records are in the
\* collection, in the order of completion and not of submission
C20_Witness ==
    /\ max_workers = 2
    /\ Len(profiles) = 2
    /\ profiles[1].profile_url = profiles_urls[2]
    /\ profiles[2].profile_url = profiles_urls[1]

----------------------------------------------------------------------------
(* Specifications *)

\* the parts of the program a specification does not run
WalkIdle ==
    /\ seeds = <<>>
    /\ web = [u \in SitemapUrls |-> Unfetched]
    /\ wpc = "idle"
    /\ seedIdx = 1
    /\ stack = <<>>
    /\ heap = <<>>
    /\ urls = {}
    /\ ordered = <<>>
    /\ fetchCount = [u \in SitemapUrls |-> 0]
    /\ warnings = 0

ExtractIdle ==
    /\ epc = "idle"
    /\ item = EmptyBlock
    /\ dom = EmptyAttrs
    /\ extracted = EmptyProfile

ParseIdle ==
    /\ ppc = "idle"
    /\ page_url = <<>>
    /\ profile = EmptyProfile
    /\ nblocks = 0
    /\ offered = EmptyProfile
    /\ clashes = {}

PipeIdle ==
    /\ mpc = "idle"
    /\ limit = <<>>
    /\ profiles_urls = <<>>
    /\ delay_range = <<0, 0>>
    /\ max_workers = 1
    /\ task = [u \in Slots |-> "queued"]
    /\ served = [u \in Slots |-> NotRequested]
    /\ requests = [u \in Slots |-> 0]
    /\ slept = [u \in Slots |-> <<>>]
    /\ future = [u \in Slots |-> NoFuture]
    /\ logged = [u \in Slots |-> 0]
    /\ warned = 0
    /\ profiles = <<>>
    /\ exported = <<>>

WalkInit ==
    /\ seeds \in UNION {[1..k -> SeedUrls] : k \in 0..MaxSeeds}
    /\ web \in {[u \in SitemapUrls |-> Unfetched], SiteIndex}
    /\ wpc = "collect"
    /\ seedIdx = 1
    /\ stack = <<>>
    /\ heap = <<>>
    /\ urls = {}
    /\ ordered = <<>>
    /\ fetchCount = [u \in SitemapUrls |-> 0]
    /\ warnings = 0
    /\ ExtractIdle
    /\ ParseIdle
    /\ PipeIdle

WalkNext ==
    \/ CollectNext
    \/ ExpandSeen
    \/ ExpandFetchRaises
    \/ ExpandFetchOk
    \/ LoopRecurse
    \/ LoopAppend
    \/ LoopDiscard
    \/ ExpandReturn
    \/ CollectFinish

\* the sitemap walker alone
WalkSpec == WalkInit /\ [][WalkNext]_vars

\* the walker is one sequential thread: it keeps running until it returns
WalkFairSpec == WalkSpec /\ WF_vars(WalkNext)


ExtractInit ==
    /\ \/ epc = "schema" /\ item \in PhoneBlocks /\ dom = EmptyAttrs
       \/ epc = "micro" /\ item = EmptyBlock /\ dom \in PhoneAttrs
    /\ extracted = EmptyProfile
    /\ WalkIdle
    /\ ParseIdle
    /\ PipeIdle

ExtractNext == ExtractSchema \/ ExtractMicro

\* extract_from_schema and extract_microdata applied to one candidate
ExtractSpec == ExtractInit /\ [][ExtractNext]_vars

MergeInit ==
    /\ ppc = "merge"
    /\ page_url = <<>>
    /\ profile \in AnyRecords
    /\ nblocks = 0
    /\ offered = EmptyProfile
    /\ clashes = {}
    /\ WalkIdle
    /\ ExtractIdle
    /\ PipeIdle

MergeNext == MergeWithEmpty \/ MergeWithSelf

\* merge_profiles applied to one record
MergeSpec == MergeInit /\ [][MergeNext]_vars

ParseInit ==
    /\ ppc = "tier1"
    /\ page_url \in {UrlP1, UrlP2}
    /\ profile = NewProfile(page_url)
    /\ nblocks = 0
    /\ offered = profile
    /\ clashes = {}
    /\ WalkIdle
    /\ ExtractIdle
    /\ PipeIdle

ParseNext ==
    \/ ParseMergeSchema
    \/ ParseSchemaRaises
    \/ ParseMergeMicro
    \/ ParseReturn

\* parse_profile_page over the candidates of one page
ParseSpec == ParseInit /\ [][ParseNext]_vars

\* the delay ranges main lets through (line 395): no pacing, and 1 to 2
DelayRanges == {<<0, 0>>, <<1, 2>>}

PipeInit ==
    /\ mpc = "start"
    /\ limit = <<>>
    /\ \E n \in 0..MaxUrls : profiles_urls = [k \in 1..n |-> PipeUrl(k)]
    /\ delay_range \in DelayRanges
    /\ max_workers \in {1, 2}
    /\ task = [u \in Slots |-> "queued"]
    /\ served = [u \in Slots |-> NotRequested]
    /\ requests = [u \in Slots |-> 0]
    /\ slept = [u \in Slots |-> <<>>]
    /\ future = [u \in Slots |-> NoFuture]
    /\ logged = [u \in Slots |-> 0]
    /\ warned = 0
    /\ profiles = <<>>
    /\ exported = <<>>
    /\ WalkIdle
    /\ ExtractIdle
    /\ ParseIdle

PipeNext ==
    \/ MainNoUrls
    \/ MainSubmit
    \/ \E u \in Slots : WorkerTake(u)
    \/ \E u \in Slots : WorkerSleep(u)
    \/ \E u \in Slots : WorkerRequest(u)
    \/ \E u \in Slots : WorkerHttpError(u)
    \/ \E u \in Slots : WorkerNetworkError(u)
    \/ \E u \in Slots : WorkerParsed(u)
    \/ \E u \in Slots : WorkerParseRaises(u)
    \/ \E u \in Slots : MainCollect(u)
    \/ MainNoRecords
    \/ MainExport

\* main from line 404 on, with the pool of fetch_profile workers
PipeSpec == PipeInit /\ [][PipeNext]_vars

\* the worker threads and the main thread keep running
PipeFairSpec == PipeSpec /\ WF_vars(PipeNext)

\* the delay bounds given on the command line: the ones of DelayRanges and
\* a minimum above the maximum
DelayArgs == DelayRanges \cup {<<2, 1>>}

\* --limit: absent, 0, 1 or -1
Limits == {<<>>, <<0>>, <<1>>, <<-1>>}

MainInit ==
    /\ mpc = "args"
    /\ seeds = <<UrlA>>
    /\ web \in {SiteIndex, SiteDown}
    /\ wpc = "idle"
    /\ seedIdx = 1
    /\ stack = <<>>
    /\ heap = <<>>
    /\ urls = {}
    /\ ordered = <<>>
    /\ fetchCount = [u \in SitemapUrls |-> 0]
    /\ warnings = 0
    /\ limit \in Limits
    /\ profiles_urls = <<>>
    /\ delay_range \in DelayArgs
    /\ max_workers \in {1, 2}
    /\ task = [u \in Slots |-> "queued"]
    /\ served = [u \in Slots |-> NotRequested]
    /\ requests = [u \in Slots |-> 0]
    /\ slept = [u \in Slots |-> <<>>]
    /\ future = [u \in Slots |-> NoFuture]
    /\ logged = [u \in Slots |-> 0]
    /\ warned = 0
    /\ profiles = <<>>
    /\ exported = <<>>
    /\ ExtractIdle
    /\ ParseIdle

MainNext ==
    \/ MainUsageError
    \/ MainDiscover
    \/ WalkNext
    \/ MainLimit
    \/ PipeNext

\* a whole run of main: the arguments, the sitemap walk, the pool, the export
MainSpec == MainInit /\ [][MainNext]_vars

====
